---- MODULE Spec2Model ----
(***************************************************************************)
(* Model of the telemetry relay of the sensor dashboard.                   *)
(*                                                                         *)
(*   - src/src/pages/api/socketio.ts : the Socket.IO relay: the primary    *)
(*     MQTT client, the bounded per-topic history (sensorDataStore) and    *)
(*     the replay sent to a newly connected Socket.IO client;              *)
(*   - src/src/app/api/custom-mqtt-proxy/route.ts : the registry of        *)
(*     dynamically added broker clients and their message forwarding;      *)
(*   - src/src/app/api/custom-mqtt-forward/route.ts : decryption of a      *)
(*     forwarded message and its broadcast on global.io;                   *)
(*   - src/api-server.js : the stand-alone API server with its own         *)
(*     sensors map (100 points per sensor) and broadcastUpdate.            *)
(*                                                                         *)
(* These are three parts that share no state: the relay keeps its store    *)
(* and its Socket.IO server in socketio.ts, the custom-broker routes keep  *)
(* clients and global.io, and api-server.js is a process of its own.  The  *)
(* variable part says which of the three a behaviour follows.              *)
(***************************************************************************)
EXTENDS Integers, Sequences, FiniteSets, TLC

(***************************************************************************)
(* Bounds of the model.                                                    *)
(***************************************************************************)
\* number of io.emit / broadcastUpdate calls a behaviour may contain
MaxEmits == 3
\* number of messages a custom broker client may hand to fetch()
MaxForwards == 2
\* number of inbound MQTT messages api-server.js handles in a behaviour
MaxApiMsgs == 3
\* number of inbound messages handled after the warm start
MaxWarmMsgs == 2
\* number of DELETE requests the proxy serves for one device name
MaxDeletes == 2
\* number of device control requests in a behaviour
MaxControls == 2
\* number of calls of the Socket.IO setup handler
MaxSetups == 2
MaxReconnects == 2

(***************************************************************************)
(* Program constants.                                                      *)
(***************************************************************************)
MAX_HISTORY_POINTS_PER_SENSOR == 300
API_MAX_POINTS == 100

(***************************************************************************)
(* Input domains.                                                          *)
(***************************************************************************)
WarmTopic == "sensorflow/demo/rpi1/temperature"
Topics == {WarmTopic, "sensorflow/demo/rpi9/humidity"}
CustomTopics == {"sensorflow/demo/rpi9/humidity"}
Subs == {"s1", "s2"}
Devices == {"rpi9"}
\* the three modules that serve the device control POST
ControlRoutes ==
    {"device-control/route.ts", "custom-mqtt-proxy/route.ts", "device-control.ts"}

\* JavaScript's NaN, undefined and null, as they print
NaN == "NaN"
Undefined == "undefined"
Null == "null"

(***************************************************************************)
(* Raw MQTT messages (message.toString()).  text says what the bytes look  *)
(* like; the other fields are the content of a JSON object.  A timestamp   *)
(* of 0 and a unit or device of "" stand for an absent (falsy) field.      *)
(*   object     {"value":...,"unit":...,"timestamp":...}                   *)
(*   number     21.5                                                       *)
(*   literal    true, "abc": valid JSON, neither object nor number         *)
(*   null       null                                                       *)
(*   rawNumber  21.5 C : not JSON, parseFloat reads the leading number     *)
(*   garbage    neither JSON nor a leading number                          *)
(***************************************************************************)
Msg(text, value, unit, timestamp) ==
    [text |-> text, value |-> value, unit |-> unit, timestamp |-> timestamp,
     threshold |-> Undefined]

\* {"threshold": th}
ThresholdMsg(th) == [Msg("object", Undefined, "", 0) EXCEPT !.threshold = th]

Messages ==
    { Msg("object", "25.5", "C", 5),
      Msg("object", "30.1", "", 0),
      Msg("object", Undefined, "C", 0),
      Msg("number", "19.0", "", 0),
      Msg("literal", Undefined, "", 0),
      Msg("rawNumber", "21.5", "", 0),
      Msg("garbage", Undefined, "", 0) }

\* the (topic, message) pairs the brokers deliver
OtherTopic == "sensorflow/demo/rpi9/humidity"
Inbound ==
    {<<WarmTopic, m>> : m \in Messages}
        \cup {<<OtherTopic, Msg("object", "30.1", "", 0)>>,
              <<OtherTopic, Msg("garbage", Undefined, "", 0)>>}

\* JSON.parse(message.toString()) succeeds
JSONParses(m) == m.text \in {"object", "number", "literal", "null"}

\* parseFloat(message.toString())
ParseFloatRaw(m) == IF m.text \in {"number", "rawNumber"} THEN m.value ELSE NaN

\* isNaN(Number(v)) for the values of the model
IsNaN(v) == v \in {NaN, Undefined, "abc"}

VARIABLES
    part,             \* "relay", "custom", "api" or a control route: the part followed
    io,               \* res.socket.server.io is set
    mqttClient,       \* the primary MQTT client of socketio.ts
    setup,            \* socketio.ts: handler calls, IOServers and MQTT clients made
    sensorDataStore,  \* Map topic -> [history, currentUnit]
    storeKeys,        \* insertion order of the Map's keys
    sockets,          \* Socket.IO clients connected to io
    inbox,            \* what each connected client has received, in order
    emitted,          \* every io.emit so far, in order
    clock,            \* new Date()
    appended,         \* per topic, every point pushed to its history, in order
    atAttach,         \* per connected client, what held when its connection handler ran
    handled,          \* number of inbound messages the message handlers have run for
    clients,          \* custom-mqtt-proxy: device name -> its MQTT client
    connects,         \* custom-mqtt-proxy: per name, the mqtt.connect calls made
    deleted,          \* custom-mqtt-proxy: per name, what each DELETE found in clients
    forwards,         \* custom-mqtt-proxy: fetch() requests in flight
    fetched,          \* custom-mqtt-proxy: number of fetch() calls made
    globalIo,         \* custom-mqtt-forward: global.io is set
    globalEmitted,    \* custom-mqtt-forward: every global.io.emit so far, in order
    forwarded,        \* custom-mqtt-forward: the requests whose reading was emitted, in order
    response,         \* custom-mqtt-*: the HTTP response of the last request served
    sensors,          \* api-server.js: sensorKey -> data points
    updates,          \* api-server.js: every broadcastUpdate so far, in order
    deviceStates,     \* api-server.js: device -> [enabled, scale]
    apiClient,        \* api-server.js: the client that connected, and when
    apiInbox,         \* api-server.js: the frames that client has received, in order
    controlClient,    \* device control: the MQTT client of the route module
    requests,         \* device control: every POST so far, with its response
    provider          \* ApiProvider: mounted, its WebSockets and its reconnect timers

relayVars == <<io, setup, mqttClient, sensorDataStore, storeKeys, sockets, inbox, emitted,
              appended, atAttach>>
customVars == <<clients, connects, deleted, forwards, fetched, globalIo, globalEmitted,
               forwarded, response>>
apiVars == <<sensors, updates, deviceStates, apiClient, apiInbox>>

controlVars == <<controlClient, requests>>

providerVars == <<provider>>

vars == <<part, clock, handled, relayVars, customVars, apiVars, controlVars, providerVars>>

NoSnapshot == [connected |-> FALSE, nonEmpty |-> {}, units |-> <<>>, processed |-> <<>>]

NoResponse == [route |-> "", status |-> 0, error |-> "", topic |-> ""]

Response(route, status, error, topic) ==
    [route |-> route, status |-> status, error |-> error, topic |-> topic]

\* no client has connected to api-server.js yet
NoApiClient == [exists |-> FALSE, server |-> "", transport |-> "", since |-> 0]

NoClient == [exists |-> FALSE, connected |-> FALSE, reconnecting |-> FALSE,
             subscribed |-> FALSE]

\* 299 points already received on WarmTopic: one below the capacity
WarmHistory ==
    [i \in 1..(MAX_HISTORY_POINTS_PER_SENSOR - 1) |-> [value |-> "25.5", timestamp |-> i]]

(***************************************************************************)
(* Events sent to Socket.IO clients.                                       *)
(***************************************************************************)
StatusEvent(connected, message) ==
    [type |-> "mqtt_status", connected |-> connected, message |-> message]

DataEvent(topic, payload) ==
    [type |-> "sensor_data", topic |-> topic, payload |-> payload]

ErrorEvent(topic, m, error) ==
    [type |-> "sensor_data_error", topic |-> topic, rawMessage |-> m, error |-> error]

HistoryEvent(topic, entry) ==
    [type |-> "initial_sensor_history", topic |-> topic,
     history |-> entry.history, unit |-> entry.currentUnit]

\* Deliver putting the event ahead of what the socket already received
DeliverFront(box, ev) ==
    [s \in Subs |-> IF s \in sockets THEN <<ev>> \o box[s] ELSE box[s]]

\* io.emit: every connected socket receives the event
Deliver(box, ev) ==
    [s \in Subs |-> IF s \in sockets THEN Append(box[s], ev) ELSE box[s]]

IoEmit(ev) ==
    /\ Len(emitted) < MaxEmits
    /\ emitted' = Append(emitted, [io |-> "relay", ev |-> ev])
    /\ inbox' = Deliver(inbox, ev)

(***************************************************************************)
(* The history buffer of socketio.ts.                                      *)
(***************************************************************************)
\* PushBounded without the splice
PushUnbounded(history, point) == Append(history, point)

\* PushBounded with the splice taken from the wrong end
PushKeepOldest(history, point) ==
    LET pushed == Append(history, point)
    IN  IF Len(pushed) > MAX_HISTORY_POINTS_PER_SENSOR
        THEN SubSeq(pushed, 1, MAX_HISTORY_POINTS_PER_SENSOR)
        ELSE pushed

\* history.push(point) followed by splice(0, length - MAX)
PushBounded(history, point) ==
    LET pushed == Append(history, point)
    IN  IF Len(pushed) > MAX_HISTORY_POINTS_PER_SENSOR
        THEN SubSeq(pushed, Len(pushed) - MAX_HISTORY_POINTS_PER_SENSOR + 1, Len(pushed))
        ELSE pushed

\* StoreAppend creating the entry of a new topic without its first point
StoreAppendEntryOnly(store, topic, unit, point) ==
    [t \in (DOMAIN store) \cup {topic} |->
        IF t # topic THEN store[t]
        ELSE IF topic \in DOMAIN store
        THEN [history |-> PushBounded(store[topic].history, point), currentUnit |-> unit]
        ELSE [history |-> <<>>, currentUnit |-> unit]]

\* StoreAppend setting the unit only when the entry is created
StoreAppendFirstUnit(store, topic, unit, point) ==
    LET old == IF topic \in DOMAIN store THEN store[topic].history ELSE <<>>
    IN  [t \in (DOMAIN store) \cup {topic} |->
            IF t = topic
            THEN [history |-> PushBounded(old, point),
                  currentUnit |-> IF topic \in DOMAIN store
                                  THEN store[topic].currentUnit ELSE unit]
            ELSE store[t]]

\* the entry of the topic after a reading: its point is pushed, its unit set
StoreAppend(store, topic, unit, point) ==
    LET old == IF topic \in DOMAIN store THEN store[topic].history ELSE <<>>
    IN  [t \in (DOMAIN store) \cup {topic} |->
            IF t = topic
            THEN [history |-> PushBounded(old, point), currentUnit |-> unit]
            ELSE store[t]]

KeysAppend(keys, store, topic) ==
    IF topic \in DOMAIN store THEN keys ELSE Append(keys, topic)

(***************************************************************************)
(* api-server.js: topics are split on "/", so they are tuples of segments  *)
(* here; the sensors map keeps the last 100 points per device/sensor.      *)
(***************************************************************************)
ApiTopics ==
    { <<"sensorflow", "demo", "rpi1", "temperature">>,
      <<"sensorflow", "demo", "rpi1", "temperature", "threshold">> }

\* const [_, __, device, sensor] = topic.split('/'); `${device}/${sensor}`
SensorKey(topic) == <<topic[3], topic[4]>>

WarmKey == <<"rpi1", "temperature">>

\* 99 points already received for WarmKey: one below the capacity
WarmPoints ==
    [i \in 1..(API_MAX_POINTS - 1) |->
        [value |-> "25.5", unit |-> "C", timestamp |-> i, coordinates |-> Null,
         threshold |-> Null]]

\* the state once the modules are loaded
RelayInit ==
    /\ io = FALSE
    /\ setup = [calls |-> 0, ioServers |-> 0, mqttClients |-> 0]
    /\ mqttClient = NoClient
    /\ sensorDataStore = <<>>
    /\ storeKeys = <<>>
    /\ appended = [t \in Topics |-> <<>>]

\* the relay after 299 readings on WarmTopic, connected and subscribed
RelayWarm ==
    /\ io = TRUE
    /\ setup = [calls |-> 1, ioServers |-> 1, mqttClients |-> 1]
    /\ mqttClient = [exists |-> TRUE, connected |-> TRUE,
                     reconnecting |-> FALSE, subscribed |-> TRUE]
    /\ sensorDataStore = (WarmTopic :> [history |-> WarmHistory, currentUnit |-> "C"])
    /\ storeKeys = <<WarmTopic>>
    /\ appended = [t \in Topics |-> IF t = WarmTopic THEN WarmHistory ELSE <<>>]

\* ApiProvider once its effect has run connect(): one WebSocket, no timer
ProviderMounted ==
    [mounted |-> TRUE, sockets |-> <<"connecting">>, wsInstance |-> 1,
     timers |-> <<>>, reconnectTimeout |-> 0, cleanup |-> [sockets |-> 0, timers |-> 0]]

Others ==
    /\ sockets = {}
    /\ inbox = [s \in Subs |-> <<>>]
    /\ atAttach = [s \in Subs |-> NoSnapshot]
    /\ response = NoResponse
    /\ emitted = <<>>
    /\ handled = 0
    /\ clients = [d \in Devices |-> NoClient]
    /\ connects = [d \in Devices |-> 0]
    /\ deleted = [d \in Devices |-> <<>>]
    /\ forwards = {}
    /\ fetched = 0
    /\ globalIo = FALSE
    /\ globalEmitted = <<>>
    /\ forwarded = <<>>
    /\ updates = <<>>
    /\ deviceStates = <<>>
    /\ apiClient = NoApiClient
    /\ apiInbox = <<>>
    /\ controlClient = NoClient
    /\ requests = <<>>
    /\ provider = ProviderMounted
    /\ clock = 1 + Len(appended[WarmTopic])
                 + (IF WarmKey \in DOMAIN sensors THEN Len(sensors[WarmKey]) ELSE 0)

Init ==
    /\ part \in {"relay", "custom", "api", "provider"} \cup ControlRoutes
    /\ RelayInit
    /\ sensors = <<>>
    /\ Others

\* a long-running system: the stores one point below their capacity
InitWarm ==
    /\ \/ part = "relay" /\ RelayWarm /\ sensors = <<>>
       \/ part = "api" /\ RelayInit /\ sensors = (WarmKey :> WarmPoints)
    /\ Others

(***************************************************************************)
(* socketio.ts: the HTTP handler that sets the relay up.                   *)
(***************************************************************************)
relayOnly == part = "relay"

\* the HTTP methods the handler is called with
Methods == {"GET", "OPTIONS", "DELETE"}

\* SocketIOHandler without the guards: every call makes a server and a client
SocketIOHandlerNoGuard(method) ==
    /\ relayOnly
    /\ setup.calls < MaxSetups
    /\ io' = TRUE
    /\ mqttClient' = [exists |-> TRUE, connected |-> FALSE,
                      reconnecting |-> FALSE, subscribed |-> FALSE]
    /\ setup' = [calls |-> setup.calls + 1, ioServers |-> setup.ioServers + 1,
                 mqttClients |-> setup.mqttClients + 1]
    /\ UNCHANGED <<part, providerVars, controlVars, customVars, apiVars, sensorDataStore, storeKeys,
                   sockets, inbox, emitted, clock, appended, handled, atAttach>>

\* the handler: 405 or 200 to OPTIONS, else on the first GET or POST the
\* IOServer is made and, inside that branch, the MQTT client
SocketIOHandler(method) ==
    /\ relayOnly
    /\ setup.calls < MaxSetups
    /\ LET makesIo == method \in {"GET", "POST"} /\ ~io
           makesClient == makesIo /\ (~mqttClient.exists
                             \/ (~mqttClient.connected /\ ~mqttClient.reconnecting))
       IN  /\ io' = (io \/ makesIo)
           /\ mqttClient' = IF makesClient
                            THEN [exists |-> TRUE, connected |-> FALSE,
                                  reconnecting |-> FALSE, subscribed |-> FALSE]
                            ELSE mqttClient
           /\ setup' = [calls |-> setup.calls + 1,
                        ioServers |-> setup.ioServers + (IF makesIo THEN 1 ELSE 0),
                        mqttClients |-> setup.mqttClients + (IF makesClient THEN 1 ELSE 0)]
    /\ UNCHANGED <<part, providerVars, controlVars, customVars, apiVars, sensorDataStore, storeKeys,
                   sockets, inbox, emitted, clock, appended, handled, atAttach>>

(***************************************************************************)
(* socketio.ts: the primary client's connection events.                    *)
(***************************************************************************)
\* MqttOnConnect with a handler that does not subscribe
MqttOnConnectNoSubscribe ==
    /\ relayOnly /\ io
    /\ mqttClient.exists /\ ~mqttClient.connected
    /\ IoEmit(StatusEvent(TRUE, "Connected to MQTT broker"))
    /\ mqttClient' = [mqttClient EXCEPT !.connected = TRUE, !.reconnecting = FALSE]
    /\ UNCHANGED <<part, providerVars, controlVars, customVars, apiVars, io, setup, sensorDataStore, storeKeys, sockets,
                   clock, appended, handled, atAttach>>

\* mqttClient.on('connect'): broadcast the status, subscribe to the patterns
MqttOnConnect ==
    /\ relayOnly /\ io
    /\ mqttClient.exists /\ ~mqttClient.connected
    /\ IoEmit(StatusEvent(TRUE, "Connected to MQTT broker"))
    /\ mqttClient' = [mqttClient EXCEPT !.connected = TRUE, !.reconnecting = FALSE,
                                        !.subscribed = TRUE]
    /\ UNCHANGED <<part, providerVars, controlVars, customVars, apiVars, io, setup, sensorDataStore, storeKeys, sockets,
                   clock, appended, handled, atAttach>>

MqttOnError ==
    /\ relayOnly /\ io
    /\ mqttClient.exists
    /\ IoEmit(StatusEvent(FALSE, "MQTT Error"))
    /\ UNCHANGED <<part, providerVars, controlVars, customVars, apiVars, io, setup, mqttClient, sensorDataStore, storeKeys,
                   sockets, clock, appended, handled, atAttach>>

MqttOnReconnect ==
    /\ relayOnly /\ io
    /\ mqttClient.exists /\ mqttClient.reconnecting
    /\ IoEmit(StatusEvent(FALSE, "MQTT reconnecting..."))
    /\ UNCHANGED <<part, providerVars, controlVars, customVars, apiVars, io, setup, mqttClient, sensorDataStore, storeKeys,
                   sockets, clock, appended, handled, atAttach>>

MqttOnClose ==
    /\ relayOnly /\ io
    /\ mqttClient.exists /\ mqttClient.connected
    /\ IoEmit(StatusEvent(FALSE, "MQTT connection closed"))
    /\ mqttClient' = [mqttClient EXCEPT !.connected = FALSE, !.subscribed = FALSE]
    /\ UNCHANGED <<part, providerVars, controlVars, customVars, apiVars, io, setup, sensorDataStore, storeKeys, sockets,
                   clock, appended, handled, atAttach>>

MqttOnOffline ==
    /\ relayOnly /\ io
    /\ mqttClient.exists /\ ~mqttClient.connected /\ ~mqttClient.reconnecting
    /\ IoEmit(StatusEvent(FALSE, "MQTT client offline"))
    /\ mqttClient' = [mqttClient EXCEPT !.reconnecting = TRUE]
    /\ UNCHANGED <<part, providerVars, controlVars, customVars, apiVars, io, setup, sensorDataStore, storeKeys, sockets,
                   clock, appended, handled, atAttach>>

(***************************************************************************)
(* socketio.ts: mqttClient.on('message').                                  *)
(***************************************************************************)
\* the value, unit and timestamp the handler settles on, or (ok = FALSE)
\* the text of the error it reports
Normalize(m, now) ==
    IF JSONParses(m)
    THEN LET parsed == IF m.text = "object"
                       THEN [value |-> m.value, unit |-> m.unit, timestamp |-> m.timestamp]
                       ELSE [value |-> (IF m.text = "number" THEN m.value ELSE NaN),
                             unit |-> "", timestamp |-> 0]
             invalid == parsed.value = Undefined \/ IsNaN(parsed.value)
             value == IF invalid THEN ParseFloatRaw(m) ELSE parsed.value
         IN  IF invalid /\ IsNaN(value)
             THEN [ok |-> FALSE, error |-> "Invalid value (not parseable to number)."]
             ELSE [ok |-> TRUE,
                   payload |-> [value |-> value,
                                unit |-> IF parsed.unit # "" THEN parsed.unit ELSE "N/A",
                                timestamp |-> IF parsed.timestamp # 0
                                              THEN parsed.timestamp ELSE now]]
    ELSE LET numericValue == ParseFloatRaw(m)
         IN  IF ~IsNaN(numericValue)
             THEN [ok |-> TRUE,
                   payload |-> [value |-> numericValue, unit |-> "N/A", timestamp |-> now]]
             ELSE [ok |-> FALSE, error |-> "Invalid format (not JSON or number)"]

MqttOnMessage(topic, m) ==
    /\ relayOnly /\ io
    /\ mqttClient.exists /\ mqttClient.connected /\ mqttClient.subscribed
    /\ LET r == Normalize(m, clock)
       IN  IF r.ok
           THEN LET point == [value |-> r.payload.value, timestamp |-> r.payload.timestamp]
                IN  /\ sensorDataStore' =
                         StoreAppend(sensorDataStore, topic, r.payload.unit, point)
                    /\ storeKeys' = KeysAppend(storeKeys, sensorDataStore, topic)
                    /\ appended' = [appended EXCEPT ![topic] = Append(@, point)]
                    /\ IoEmit(DataEvent(topic, r.payload))
           ELSE /\ IoEmit(ErrorEvent(topic, m, r.error))
                /\ UNCHANGED <<sensorDataStore, storeKeys, appended>>
    /\ clock' = clock + 1
    /\ handled' = handled + 1
    /\ UNCHANGED <<part, providerVars, controlVars, customVars, apiVars, io, setup, mqttClient, sockets, atAttach>>

(***************************************************************************)
(* socketio.ts: io.on('connection') and the socket's 'disconnect'.         *)
(***************************************************************************)
\* a connection handler that sends no history
ReplayNothing(keys, store) == <<>>

RECURSIVE Replay(_, _)
\* sensorDataStore.forEach: one initial_sensor_history per non-empty topic
Replay(keys, store) ==
    IF keys = <<>> THEN <<>>
    ELSE LET topic == Head(keys)
             rest == Replay(Tail(keys), store)
         IN  IF Len(store[topic].history) > 0
             THEN <<HistoryEvent(topic, store[topic])>> \o rest
             ELSE rest

\* a connection handler that reports the state the client was created in
ConnectionStatusStale == StatusEvent(FALSE, "MQTT not connected")

ConnectionStatus ==
    IF mqttClient.exists
    THEN StatusEvent(mqttClient.connected,
                     IF mqttClient.connected THEN "Connected to MQTT broker"
                     ELSE IF mqttClient.reconnecting THEN "MQTT reconnecting..."
                     ELSE "MQTT not connected")
    ELSE StatusEvent(FALSE, "MQTT client not initialized")

\* the broker state, the topics with history and the number of readings
\* processed per topic at the moment a client connects
Snapshot ==
    [connected |-> mqttClient.connected,
     nonEmpty |-> {t \in DOMAIN sensorDataStore : Len(sensorDataStore[t].history) > 0},
     units |-> [t \in DOMAIN sensorDataStore |-> sensorDataStore[t].currentUnit],
     processed |-> [t \in Topics |-> Len(appended[t])]]

OnConnection(s) ==
    /\ relayOnly /\ io
    /\ s \notin sockets
    /\ sockets' = sockets \cup {s}
    /\ inbox' = [inbox EXCEPT ![s] = <<ConnectionStatus>> \o Replay(storeKeys, sensorDataStore)]
    /\ atAttach' = [atAttach EXCEPT ![s] = Snapshot]
    /\ UNCHANGED <<part, providerVars, controlVars, customVars, apiVars, io, setup, mqttClient, sensorDataStore, storeKeys,
                   emitted, clock, appended, handled>>

OnDisconnect(s) ==
    /\ relayOnly
    /\ s \in sockets
    /\ sockets' = sockets \ {s}
    /\ inbox' = [inbox EXCEPT ![s] = <<>>]
    /\ atAttach' = [atAttach EXCEPT ![s] = NoSnapshot]
    /\ UNCHANGED <<part, providerVars, controlVars, customVars, apiVars, io, setup, mqttClient, sensorDataStore, storeKeys,
                   emitted, clock, appended, handled>>

(***************************************************************************)
(* custom-mqtt-proxy/route.ts: the registry of custom broker clients.      *)
(***************************************************************************)
customOnly == part = "custom"

\* what a custom device publishes: base64 AES ciphertext of a JSON text, or
\* bytes that do not decrypt
Encrypt(m) == [cipher |-> "aes-256-cbc", plain |-> m]
Garbled == [cipher |-> "none", plain |-> Msg("garbage", Undefined, "", 0)]

\* the payload the sensor-data route encrypts: a reading with all its fields
Reading(value, unit, timestamp, device, coordinates, threshold) ==
    [text |-> "object", value |-> value, unit |-> unit, timestamp |-> timestamp,
     threshold |-> threshold, device |-> device, coordinates |-> coordinates]

\* payload[f], undefined when the object has no such property
Property(payload, f) == IF f \in DOMAIN payload THEN payload[f] ELSE Undefined

CustomMessages ==
    { Encrypt(Reading("25.5", "C", 5, "rpi7", "12.9,77.6", "30")),
      Encrypt(Msg("object", "30.1", "", 0)),
      Encrypt(Msg("number", "19.0", "", 0)),
      Garbled }

\* RegisterPOST without the check for an existing client
RegisterPOSTNoCheck(name) ==
    /\ part \in {"custom"} \cup ControlRoutes
    /\ connects' = [connects EXCEPT ![name] = @ + 1]
    /\ clients' = [clients EXCEPT ![name] =
                     [exists |-> TRUE, connected |-> FALSE,
                      reconnecting |-> FALSE, subscribed |-> FALSE]]
    /\ response' = Response("proxy", 200, "", "")
    /\ UNCHANGED <<part, providerVars, controlVars, deleted, clock, handled, relayVars, apiVars, forwards, fetched,
                   globalIo, globalEmitted, forwarded>>

\* POST: register a device and connect to its broker
RegisterPOST(name) ==
    /\ part \in {"custom"} \cup ControlRoutes
    /\ IF clients[name].exists
       THEN /\ response' = Response("proxy", 400, "Client already exists for this device", "")
            /\ UNCHANGED <<clients, connects>>
       ELSE /\ connects' = [connects EXCEPT ![name] = @ + 1]
            /\ clients' = [clients EXCEPT ![name] =
                             [exists |-> TRUE, connected |-> FALSE,
                              reconnecting |-> FALSE, subscribed |-> FALSE]]
            /\ response' = Response("proxy", 200, "", "")
    /\ UNCHANGED <<part, providerVars, controlVars, deleted, clock, handled, relayVars, apiVars, forwards, fetched,
                   globalIo, globalEmitted, forwarded>>

\* client.on('connect'): subscribe to the device's topics
CustomOnConnect(name) ==
    /\ customOnly
    /\ clients[name].exists /\ ~clients[name].connected
    /\ clients' = [clients EXCEPT ![name].connected = TRUE,
                                  ![name].reconnecting = FALSE,
                                  ![name].subscribed = TRUE]
    /\ UNCHANGED <<part, providerVars, controlVars, connects, deleted, clock, handled, relayVars, apiVars, forwards, fetched,
                   globalIo, globalEmitted, forwarded, response>>

\* the connection to the device's broker drops; no handler is registered
CustomOnClose(name) ==
    /\ customOnly
    /\ clients[name].exists /\ clients[name].connected
    /\ clients' = [clients EXCEPT ![name].connected = FALSE,
                                  ![name].reconnecting = TRUE,
                                  ![name].subscribed = FALSE]
    /\ UNCHANGED <<part, providerVars, controlVars, connects, deleted, clock, handled, relayVars, apiVars, forwards, fetched,
                   globalIo, globalEmitted, forwarded, response>>

\* client.on('message'): start the fetch() to the forward route
CustomOnMessage(name, topic, message) ==
    /\ customOnly
    /\ clients[name].exists /\ clients[name].connected /\ clients[name].subscribed
    /\ fetched < MaxForwards
    /\ fetched' = fetched + 1
    /\ forwards' = forwards \cup
          {[id |-> fetched + 1, topic |-> topic, message |-> message, device |-> name]}
    /\ UNCHANGED <<part, providerVars, controlVars, connects, deleted, clock, handled, relayVars, apiVars, clients, globalIo,
                   globalEmitted, forwarded, response>>

\* FetchFails without the try/catch: the rejection is unhandled and takes the
\* process's clients down
FetchFailsFatal(req) ==
    /\ customOnly
    /\ req \in forwards
    /\ forwards' = forwards \ {req}
    /\ handled' = handled + 1
    /\ clients' = [d \in Devices |-> NoClient]
    /\ UNCHANGED <<part, providerVars, controlVars, connects, deleted, clock, relayVars, apiVars, fetched, globalIo, globalEmitted, forwarded,
                   response>>

\* the fetch() rejects (the forward route is unreachable); the handler logs it
FetchFails(req) ==
    /\ customOnly
    /\ req \in forwards
    /\ forwards' = forwards \ {req}
    /\ handled' = handled + 1
    /\ UNCHANGED <<part, providerVars, controlVars, connects, deleted, clock, relayVars, apiVars, clients, fetched, globalIo,
                   globalEmitted, forwarded, response>>

\* UnregisterDELETE ending and forgetting only a client that is connected
UnregisterDELETEIfConnected(name) ==
    /\ customOnly
    /\ Len(deleted[name]) < MaxDeletes
    /\ deleted' = [deleted EXCEPT ![name] =
                     Append(@, IF clients[name].connected THEN clients[name] ELSE NoClient)]
    /\ IF clients[name].connected
       THEN clients' = [clients EXCEPT ![name] = NoClient]
       ELSE UNCHANGED clients
    /\ response' = Response("proxy", 200, "", "")
    /\ UNCHANGED <<part, providerVars, controlVars, connects, clock, handled, relayVars, apiVars, forwards, fetched,
                   globalIo, globalEmitted, forwarded>>

\* UnregisterDELETE forgetting the name and ending its client at every call
UnregisterDELETEEndsAgain(name) ==
    /\ customOnly
    /\ Len(deleted[name]) < MaxDeletes
    /\ deleted' = [deleted EXCEPT ![name] =
                     Append(@, [clients[name] EXCEPT !.exists = TRUE])]
    /\ clients' = [clients EXCEPT ![name] = NoClient]
    /\ response' = Response("proxy", 200, "", "")
    /\ UNCHANGED <<part, providerVars, controlVars, connects, clock, handled, relayVars, apiVars, forwards, fetched,
                   globalIo, globalEmitted, forwarded>>

\* DELETE: force-disconnect the device's client and forget it
UnregisterDELETE(name) ==
    /\ customOnly
    /\ Len(deleted[name]) < MaxDeletes
    /\ deleted' = [deleted EXCEPT ![name] = Append(@, clients[name])]
    /\ IF clients[name].exists
       THEN \* client.end(true); delete clients[name]
            clients' = [clients EXCEPT ![name] = NoClient]
       ELSE UNCHANGED clients
    /\ response' = Response("proxy", 200, "", "")
    /\ UNCHANGED <<part, providerVars, controlVars, connects, clock, handled, relayVars, apiVars, forwards, fetched,
                   globalIo, globalEmitted, forwarded>>

(***************************************************************************)
(* custom-mqtt-forward/route.ts: decrypt a forwarded message and emit it.  *)
(***************************************************************************)
\* decryptData losing the unit of the reading
decryptDataDropsUnit(message) ==
    IF message.cipher = "aes-256-cbc" /\ JSONParses(message.plain)
    THEN [message.plain EXCEPT !.unit = ""]
    ELSE Msg("null", Null, "", 0)

\* decryptData: the parsed JSON of the plaintext, or null (text "null") when
\* the decipher or JSON.parse throws
decryptData(message) ==
    IF message.cipher = "aes-256-cbc" /\ JSONParses(message.plain)
    THEN message.plain
    ELSE Msg("null", Null, "", 0)

\* ForwardPOST keeping the device the decrypted payload names
ForwardPOSTKeepsDevice(req) ==
    /\ customOnly
    /\ req \in forwards
    /\ forwards' = forwards \ {req}
    /\ handled' = handled + 1
    /\ LET decryptedPayload == decryptData(req.message)
       IN  IF decryptedPayload.text = "null"
           THEN \* !decryptedPayload
                /\ response' = Response("forward", 400, "Failed to decrypt message", req.topic)
                /\ UNCHANGED <<globalIo, globalEmitted, forwarded, clock>>
           ELSE IF decryptedPayload.text # "object"
           THEN \* a property is assigned on a primitive: TypeError, caught
                /\ response' = Response("forward", 500, "Internal error", req.topic)
                /\ UNCHANGED <<globalIo, globalEmitted, forwarded, clock>>
           ELSE /\ globalIo' = TRUE
                /\ globalEmitted' = Append(globalEmitted,
                      DataEvent(req.topic,
                         [value |-> decryptedPayload.value,
                          unit |-> decryptedPayload.unit,
                          timestamp |-> IF decryptedPayload.timestamp # 0
                                        THEN decryptedPayload.timestamp ELSE clock,
                          device |-> IF "device" \in DOMAIN decryptedPayload
                                     THEN decryptedPayload.device ELSE req.device,
                          connectionType |-> "custom-mqtt",
                          coordinates |-> Property(decryptedPayload, "coordinates"),
                          threshold |-> decryptedPayload.threshold]))
                /\ forwarded' = Append(forwarded, [id |-> req.id, topic |-> req.topic])
                /\ response' = Response("forward", 200, "", req.topic)
                /\ clock' = clock + 1
    /\ UNCHANGED <<part, providerVars, controlVars, connects, deleted, relayVars, apiVars, clients, fetched>>

ForwardPOST(req) ==
    /\ customOnly
    /\ req \in forwards
    /\ forwards' = forwards \ {req}
    /\ handled' = handled + 1
    /\ LET decryptedPayload == decryptData(req.message)
       IN  IF decryptedPayload.text = "null"
           THEN \* !decryptedPayload
                /\ response' = Response("forward", 400, "Failed to decrypt message", req.topic)
                /\ UNCHANGED <<globalIo, globalEmitted, forwarded, clock>>
           ELSE IF decryptedPayload.text # "object"
           THEN \* a property is assigned on a primitive: TypeError, caught
                /\ response' = Response("forward", 500, "Internal error", req.topic)
                /\ UNCHANGED <<globalIo, globalEmitted, forwarded, clock>>
           ELSE /\ globalIo' = TRUE
                /\ globalEmitted' = Append(globalEmitted,
                      DataEvent(req.topic,
                         [value |-> decryptedPayload.value,
                          unit |-> decryptedPayload.unit,
                          timestamp |-> IF decryptedPayload.timestamp # 0
                                        THEN decryptedPayload.timestamp ELSE clock,
                          device |-> req.device,
                          connectionType |-> "custom-mqtt",
                          coordinates |-> Property(decryptedPayload, "coordinates"),
                          threshold |-> decryptedPayload.threshold]))
                /\ forwarded' = Append(forwarded, [id |-> req.id, topic |-> req.topic])
                /\ response' = Response("forward", 200, "", req.topic)
                /\ clock' = clock + 1
    /\ UNCHANGED <<part, providerVars, controlVars, connects, deleted, relayVars, apiVars, clients, fetched>>

(***************************************************************************)
(* api-server.js: mqttClient.on('message') and broadcastUpdate.            *)
(***************************************************************************)
apiOnly == part = "api"

\* the MQTT messages api-server.js receives
ApiMessages ==
    { Msg("object", "25.5", "C", 5),
      Msg("object", "30.1", "", 0),
      ThresholdMsg("40"),
      Msg("null", Null, "", 0),
      Msg("garbage", Undefined, "", 0) }

\* Number(data.value)
ToNumber(v) == IF IsNaN(v) THEN NaN ELSE v

\* data.value, data.unit, ... of the parsed JSON: undefined on a primitive
Field(m, f) == IF m.text = "object" THEN m[f] ELSE Undefined

\* sensors[key].push(data) followed by slice(-100)
ApiPush(points, data) ==
    LET pushed == Append(points, data)
    IN  IF Len(pushed) > API_MAX_POINTS
        THEN SubSeq(pushed, Len(pushed) - API_MAX_POINTS + 1, Len(pushed))
        ELSE pushed

\* if (!sensors[sensorKey]) sensors[sensorKey] = []
ApiEnsure(map, key) ==
    [k \in (DOMAIN map) \cup {key} |-> IF k \in DOMAIN map THEN map[k] ELSE <<>>]

ApiSet(map, key, points) ==
    [k \in (DOMAIN map) \cup {key} |-> IF k = key THEN points ELSE map[k]]

\* the servers a client connects to and the two protocols they speak
ApiClients ==
    [exists : {TRUE}, server : {"http", "https"}, transport : {"ws", "socket.io"},
     since : {0}]

\* wss.clients.forEach(send) and io.emit: the clients of the plain HTTP
\* server's wss and io get the update
broadcastUpdate(update) ==
    /\ updates' = Append(updates, update)
    /\ apiInbox' = IF apiClient.exists /\ apiClient.server = "http"
                   THEN Append(apiInbox, update) ELSE apiInbox

ApiOnMessage(topic, m) ==
    /\ apiOnly
    /\ handled < MaxApiMsgs
    /\ handled' = handled + 1
    /\ clock' = clock + 1
    /\ LET key == SensorKey(topic)
           ensured == ApiEnsure(sensors, key)
       IN  IF ~JSONParses(m)
           THEN \* JSON.parse throws: the catch block only logs
                UNCHANGED <<sensors, updates, apiInbox>>
           ELSE IF topic[Len(topic)] = "threshold"
           THEN IF m.text = "null"
                THEN \* data.threshold throws, inside map() when there are
                     \* points and after the assignment when there are none
                     /\ sensors' = IF ensured[key] = <<>> THEN ensured ELSE sensors
                     /\ UNCHANGED <<updates, apiInbox>>
                ELSE /\ sensors' = ApiSet(ensured, key,
                           [i \in 1..Len(ensured[key]) |->
                               [ensured[key][i] EXCEPT !.threshold = Field(m, "threshold")]])
                     /\ broadcastUpdate([type |-> "threshold_update", sensor |-> key,
                                         threshold |-> Field(m, "threshold")])
           ELSE IF m.text = "null"
           THEN \* data.value throws after the sensor's entry was created
                /\ sensors' = ensured
                /\ UNCHANGED <<updates, apiInbox>>
           ELSE LET unit == Field(m, "unit")
                    threshold == Field(m, "threshold")
                    sensorData ==
                       [value |-> ToNumber(Field(m, "value")),
                        unit |-> IF unit \notin {"", Undefined} THEN unit ELSE "N/A",
                        timestamp |-> IF m.text = "object" /\ m.timestamp # 0
                                      THEN m.timestamp ELSE clock,
                        coordinates |-> Null,
                        threshold |-> IF threshold # Undefined THEN threshold ELSE Null]
                IN  /\ sensors' = ApiSet(ensured, key, ApiPush(ensured[key], sensorData))
                    /\ broadcastUpdate([type |-> "sensor_update", sensor |-> key,
                                        data |-> sensorData])
    /\ UNCHANGED <<part, providerVars, controlVars, relayVars, customVars, deviceStates, apiClient>>

\* a client connects; only wssSecure and ioSecure have a connection handler,
\* which sends initial_data
ApiConnect(c) ==
    /\ apiOnly
    /\ ~apiClient.exists
    /\ apiClient' = [c EXCEPT !.since = Len(updates)]
    /\ apiInbox' = IF c.server = "https"
                   THEN <<[type |-> "initial_data", sensors |-> sensors,
                           deviceStates |-> deviceStates]>>
                   ELSE <<>>
    /\ UNCHANGED <<part, providerVars, clock, handled, controlVars, relayVars, customVars, sensors,
                   updates, deviceStates>>

\* the JSON bodies of the device control requests; Undefined is a field not given
ApiControls ==
    { [device |-> "rpi1", enabled |-> Null, scale |-> Undefined],
      [device |-> "rpi1", enabled |-> Undefined, scale |-> "2"],
      [device |-> "rpi2", enabled |-> "false", scale |-> Undefined] }

\* a ?? b
Coalesce(a, b) == IF a \in {Null, Undefined} THEN b ELSE a

\* deviceStates[device]?.field
StateField(states, device, f) ==
    IF device \in DOMAIN states THEN states[device][f] ELSE Undefined

\* ApiControlPOST giving every omitted field its default
ApiControlPOSTResets(q) ==
    /\ apiOnly
    /\ handled < MaxApiMsgs
    /\ handled' = handled + 1
    /\ LET state == [enabled |-> IF q.enabled # Undefined THEN q.enabled ELSE "true",
                     scale |-> IF q.scale # Undefined THEN q.scale ELSE "1"]
       IN  /\ deviceStates' = [d \in (DOMAIN deviceStates) \cup {q.device} |->
                                  IF d = q.device THEN state ELSE deviceStates[d]]
           /\ broadcastUpdate([type |-> "device_control", device |-> q.device,
                               state |-> state])
    /\ UNCHANGED <<part, providerVars, clock, controlVars, relayVars, customVars, sensors, apiClient>>

\* POST /api/device/:device/control
ApiControlPOST(q) ==
    /\ apiOnly
    /\ handled < MaxApiMsgs
    /\ handled' = handled + 1
    /\ LET state ==
             [enabled |-> IF q.enabled # Undefined THEN q.enabled
                          ELSE Coalesce(StateField(deviceStates, q.device, "enabled"), "true"),
              scale |-> IF q.scale # Undefined THEN q.scale
                        ELSE Coalesce(StateField(deviceStates, q.device, "scale"), "1")]
       IN  /\ deviceStates' = [d \in (DOMAIN deviceStates) \cup {q.device} |->
                                  IF d = q.device THEN state ELSE deviceStates[d]]
           /\ broadcastUpdate([type |-> "device_control", device |-> q.device,
                               state |-> state])
    /\ UNCHANGED <<part, providerVars, clock, controlVars, relayVars, customVars, sensors, apiClient>>

(***************************************************************************)
(* device-control/route.ts and its two copies: the control command POST.   *)
(***************************************************************************)
controlOnly == part \in ControlRoutes

MQTT_BROKER == "mqtt://broker.hivemq.com:1883"
BASE_TOPIC == "sensorflow/demo"

\* data.broker of the registration of a custom device
CustomBroker(name) == "mqtt://" \o name \o ".local:1883"

\* the query parameters of the requests; Null is a parameter not given
ControlQuery(device, enabled, scale) ==
    [device |-> device, enabled |-> enabled, scale |-> scale]

ControlQueries ==
    { ControlQuery("rpi1", "true", Null),
      ControlQuery("rpi9", "false", Null),
      ControlQuery("rpi9", Null, "1.5"),
      ControlQuery("rpi1", "true", "abc"),
      ControlQuery("", "true", Null) }

\* parseFloat(scaleParam)
ParseFloat(text) == IF text = "1.5" THEN text ELSE NaN

\* payloadObj as JSON.stringify writes it: Undefined is a property not set,
\* NaN is written as null
ControlPayload(q) ==
    [enabled |-> IF q.enabled = Null THEN Undefined
                 ELSE IF q.enabled = "true" THEN "true" ELSE "false",
     scale |-> IF q.scale = Null THEN Undefined
               ELSE IF ParseFloat(q.scale) = NaN THEN Null ELSE ParseFloat(q.scale)]

ControlTopic(device) == BASE_TOPIC \o "/" \o device \o "/control"

\* a request and what became of it: status 0 is a response not sent yet
ControlRequest(route, q, registered, broker, status, error) ==
    [route |-> route, device |-> q.device, enabled |-> q.enabled, scale |-> q.scale,
     registered |-> registered, broker |-> broker,
     topic |-> IF broker = "" THEN "" ELSE ControlTopic(q.device),
     payload |-> ControlPayload(q), status |-> status, error |-> error]

\* getClient(broker): the client of the module, made on first use
getClient ==
    IF controlClient.exists
    THEN controlClient
    ELSE [exists |-> TRUE, connected |-> FALSE, reconnecting |-> FALSE,
          subscribed |-> FALSE]

\* POST: publish the command and wait for the publish callback.
\* device-control/route.ts reads localStorage, which the server either does
\* not define (ReferenceError, answered 500) or has with nothing stored in it
ControlPOST(q) ==
    /\ controlOnly
    /\ Len(requests) < MaxControls
    /\ \E hasLocalStorage \in BOOLEAN :
         LET route == part
             registered == q.device \in Devices /\ clients[q.device].exists
         IN  IF q.device = ""
             THEN /\ requests' = Append(requests,
                       ControlRequest(route, q, registered, "", 400,
                                      "Missing device parameter"))
                  /\ UNCHANGED controlClient
             ELSE IF route = "device-control/route.ts" /\ ~hasLocalStorage
             THEN /\ requests' = Append(requests,
                       ControlRequest(route, q, registered, "", 500,
                                      "ReferenceError: localStorage is not defined"))
                  /\ UNCHANGED controlClient
             ELSE /\ controlClient' = getClient
                  /\ requests' = Append(requests,
                       ControlRequest(route, q, registered, MQTT_BROKER, 0, ""))
    /\ UNCHANGED <<part, providerVars, clock, handled, relayVars, customVars, apiVars>>

\* the module's client connects to the broker
ControlOnConnect ==
    /\ controlOnly
    /\ controlClient.exists /\ ~controlClient.connected
    /\ controlClient' = [controlClient EXCEPT !.connected = TRUE,
                                              !.reconnecting = FALSE]
    /\ UNCHANGED <<part, providerVars, clock, handled, relayVars, customVars, apiVars, requests>>

\* the module's client loses the broker
ControlOnClose ==
    /\ controlOnly
    /\ controlClient.exists /\ controlClient.connected
    /\ controlClient' = [controlClient EXCEPT !.connected = FALSE,
                                              !.reconnecting = TRUE]
    /\ UNCHANGED <<part, providerVars, clock, handled, relayVars, customVars, apiVars, requests>>

\* the publish callback without an error: the packet was written to the
\* connected client's stream; the request is answered success
PublishCallback(i) ==
    /\ controlOnly
    /\ i \in DOMAIN requests /\ requests[i].status = 0
    /\ controlClient.connected
    /\ requests' = [requests EXCEPT ![i].status = 200]
    /\ UNCHANGED <<part, providerVars, clock, handled, relayVars, customVars, apiVars, controlClient>>

\* the publish callback with an error: the write to the stream failed; the
\* request is answered 500
PublishError(i) ==
    /\ controlOnly
    /\ i \in DOMAIN requests /\ requests[i].status = 0
    /\ controlClient.connected
    /\ requests' = [requests EXCEPT ![i].status = 500,
                                    ![i].error = "Failed to publish control message"]
    /\ UNCHANGED <<part, providerVars, clock, handled, relayVars, customVars, apiVars, controlClient>>

(***************************************************************************)
(* ApiContext.tsx: the provider's WebSocket and its reconnect timer.        *)
(* provider.sockets holds the readyState of every WebSocket made so far,    *)
(* provider.timers whether each setTimeout made so far is still pending.    *)
(***************************************************************************)
providerOnly == part = "provider"

\* reconnectTimeout = setTimeout(connect, 5000)
SetReconnectTimeout(p) ==
    [p EXCEPT !.timers = Append(@, TRUE), !.reconnectTimeout = Len(p.timers) + 1]

\* connect(): wsInstance = new WebSocket(wsUrl), or the catch branch
connect(p, throws) ==
    IF throws THEN SetReconnectTimeout(p)
    ELSE [p EXCEPT !.sockets = Append(@, "connecting"), !.wsInstance = Len(p.sockets) + 1]

\* wsInstance.close()
CloseSocket(state) == IF state \in {"connecting", "open"} THEN "closing" ELSE state

PendingTimers == {k \in DOMAIN provider.timers : provider.timers[k]}

WsOnOpen(i) ==
    /\ providerOnly
    /\ i \in DOMAIN provider.sockets /\ provider.sockets[i] = "connecting"
    /\ provider' = [provider EXCEPT !.sockets[i] = "open"]
    /\ UNCHANGED <<part, clock, handled, relayVars, customVars, apiVars, controlVars>>

WsOnClose(i) ==
    /\ providerOnly
    /\ i \in DOMAIN provider.sockets /\ provider.sockets[i] # "closed"
    /\ Len(provider.timers) < MaxReconnects
    /\ provider' = SetReconnectTimeout([provider EXCEPT !.sockets[i] = "closed"])
    /\ UNCHANGED <<part, clock, handled, relayVars, customVars, apiVars, controlVars>>

ReconnectTimeoutFires(k) ==
    /\ providerOnly
    /\ k \in PendingTimers
    /\ \E throws \in BOOLEAN :
          /\ throws => Len(provider.timers) < MaxReconnects
          /\ provider' = connect([provider EXCEPT !.timers[k] = FALSE], throws)
    /\ UNCHANGED <<part, clock, handled, relayVars, customVars, apiVars, controlVars>>

\* the function the effect returns, run when the provider is unmounted
ProviderCleanup ==
    /\ providerOnly
    /\ provider.mounted
    /\ LET ws == provider.wsInstance
           t == provider.reconnectTimeout
           closed == IF ws # 0
                     THEN [provider EXCEPT !.sockets[ws] = CloseSocket(@)]
                     ELSE provider
           cleared == IF t # 0 THEN [closed EXCEPT !.timers[t] = FALSE] ELSE closed
       IN  provider' = [cleared EXCEPT !.mounted = FALSE,
                                       !.cleanup = [sockets |-> Len(provider.sockets),
                                                    timers |-> Len(provider.timers)]]
    /\ UNCHANGED <<part, clock, handled, relayVars, customVars, apiVars, controlVars>>

Next ==
    \/ \E method \in Methods : SocketIOHandler(method)
    \/ MqttOnConnect
    \/ MqttOnError
    \/ MqttOnReconnect
    \/ MqttOnClose
    \/ MqttOnOffline
    \/ \E in \in Inbound : MqttOnMessage(in[1], in[2])
    \/ \E s \in Subs : OnConnection(s)
    \/ \E s \in Subs : OnDisconnect(s)
    \/ \E name \in Devices : RegisterPOST(name)
    \/ \E name \in Devices : CustomOnConnect(name)
    \/ \E name \in Devices : CustomOnClose(name)
    \/ \E name \in Devices, topic \in CustomTopics, message \in CustomMessages :
          CustomOnMessage(name, topic, message)
    \/ \E req \in forwards : FetchFails(req)
    \/ \E name \in Devices : UnregisterDELETE(name)
    \/ \E req \in forwards : ForwardPOST(req)
    \/ \E topic \in ApiTopics, m \in ApiMessages : ApiOnMessage(topic, m)
    \/ \E c \in ApiClients : ApiConnect(c)
    \/ \E q \in ApiControls : ApiControlPOST(q)
    \/ \E q \in ControlQueries : ControlPOST(q)
    \/ ControlOnConnect
    \/ ControlOnClose
    \/ \E i \in 1..MaxControls : PublishCallback(i)
    \/ \E i \in 1..MaxControls : PublishError(i)
    \/ \E i \in 1..(MaxReconnects + 1) : WsOnOpen(i)
    \/ \E i \in 1..(MaxReconnects + 1) : WsOnClose(i)
    \/ \E k \in 1..MaxReconnects : ReconnectTimeoutFires(k)
    \/ ProviderCleanup

Spec == Init /\ [][Next]_vars

\* the message handlers and the Socket.IO connections of a long-running system
NextWarm ==
    \/ \E in \in Inbound : handled < MaxWarmMsgs /\ MqttOnMessage(in[1], in[2])
    \/ \E s \in Subs : OnConnection(s)
    \/ \E s \in Subs : OnDisconnect(s)
    \/ \E topic \in ApiTopics, m \in ApiMessages :
          handled < MaxWarmMsgs /\ ApiOnMessage(topic, m)

SpecWarm == InitWarm /\ [][NextWarm]_vars

(***************************************************************************)
(* Properties.                                                             *)
(***************************************************************************)
Min(a, b) == IF a < b THEN a ELSE b

\* the last n elements of seq
LastN(seq, n) == SubSeq(seq, Len(seq) - n + 1, Len(seq))

\* the stored history of a topic: empty when the topic is unknown
History(t) == IF t \in DOMAIN sensorDataStore THEN sensorDataStore[t].history ELSE <<>>

IsHistoryEvent(e) == e.type = "initial_sensor_history"
IsDataEvent(e) == e.type = "sensor_data"
IsErrorEvent(e) == e.type = "sensor_data_error"
IsStatusEvent(e) == e.type = "mqtt_status"

\* C1: no topic of sensorDataStore ever holds more than 300 points, and no
\* sensor of api-server.js's sensors map more than 100.
C1_HistoryWithinCapacity ==
    /\ \A t \in DOMAIN sensorDataStore :
          Len(sensorDataStore[t].history) <= MAX_HISTORY_POINTS_PER_SENSOR
    /\ \A k \in DOMAIN sensors : Len(sensors[k]) <= API_MAX_POINTS

\* more readings than the capacity were appended to a topic and the oldest
\* has been evicted
C1_Witness ==
    /\ Len(appended[WarmTopic]) > MAX_HISTORY_POINTS_PER_SENSOR
    /\ Len(History(WarmTopic)) = MAX_HISTORY_POINTS_PER_SENSOR

\* C2: the stored history of every topic is exactly the last min(300, N) of
\* the N readings appended to it, in arrival order, and every replay a
\* client has received was such a suffix of the readings appended until then.
C2_FifoEviction ==
    /\ \A t \in Topics :
          History(t) = LastN(appended[t],
                             Min(MAX_HISTORY_POINTS_PER_SENSOR, Len(appended[t])))
    /\ \A s \in sockets : \A i \in DOMAIN inbox[s] :
          IsHistoryEvent(inbox[s][i]) =>
             LET e == inbox[s][i]
             IN  \E n \in Len(e.history)..Len(appended[e.topic]) :
                    e.history = LastN(SubSeq(appended[e.topic], 1, n),
                                      Min(MAX_HISTORY_POINTS_PER_SENSOR, n))

\* a client was replayed a full history whose oldest reading had been evicted
C2_Witness ==
    \E s \in sockets : \E i \in DOMAIN inbox[s] :
        /\ IsHistoryEvent(inbox[s][i])
        /\ Len(inbox[s][i].history) = MAX_HISTORY_POINTS_PER_SENSOR
        /\ inbox[s][i].history[1] # appended[inbox[s][i].topic][1]

\* the history replay of topic t is in box before position j
ReplayedBefore(box, t, j) ==
    \E i \in 1..(j - 1) : IsHistoryEvent(box[i]) /\ box[i].topic = t

\* C3 as stated: a client never holds a live reading of a topic without an
\* earlier history replay of that topic.
C3_ReplayBeforeAnyLive ==
    \A s \in sockets : \A j \in DOMAIN inbox[s] :
        IsDataEvent(inbox[s][j]) => ReplayedBefore(inbox[s], inbox[s][j].topic, j)

\* C3, amended: for every topic whose history was non-empty when the client
\* connected, the client holds the topic's history replay before any live
\* reading of that topic.
C3_ReplayBeforeLive ==
    \A s \in sockets : \A j \in DOMAIN inbox[s] :
        (IsDataEvent(inbox[s][j]) /\ inbox[s][j].topic \in atAttach[s].nonEmpty)
            => ReplayedBefore(inbox[s], inbox[s][j].topic, j)

\* a client that connected when a topic had history has since received a
\* live reading of that topic
C3_Witness ==
    \E s \in sockets : \E j \in DOMAIN inbox[s] :
        IsDataEvent(inbox[s][j]) /\ inbox[s][j].topic \in atAttach[s].nonEmpty

\* C4: what a client receives on connecting is, in this order, one status
\* event carrying the broker connection's state at that moment and then one
\* history event for each topic whose history was non-empty at that moment,
\* tagged with the topic's unit; it receives no other history event.
C4_AttachSendsStatusThenHistory ==
    \A s \in sockets :
        LET box == inbox[s]
            k == Cardinality(atAttach[s].nonEmpty)
        IN  /\ Len(box) >= 1 + k
            /\ IsStatusEvent(box[1])
            /\ box[1].connected = atAttach[s].connected
            /\ \A i \in 2..(k + 1) :
                  /\ IsHistoryEvent(box[i])
                  /\ box[i].topic \in atAttach[s].nonEmpty
                  /\ box[i].unit = atAttach[s].units[box[i].topic]
            /\ {box[i].topic : i \in 2..(k + 1)} = atAttach[s].nonEmpty
            /\ \A i \in (k + 2)..Len(box) : ~IsHistoryEvent(box[i])

\* a client connected while the broker was connected and both topics had
\* history
C4_Witness ==
    \E s \in sockets :
        /\ atAttach[s].connected
        /\ atAttach[s].nonEmpty = Topics

\* the live readings of topic t in box, as history points
LivePoints(box, t) ==
    LET live == SelectSeq(box, LAMBDA e : IsDataEvent(e) /\ e.topic = t)
    IN  [i \in 1..Len(live) |->
            [value |-> live[i].payload.value, timestamp |-> live[i].payload.timestamp]]

\* C6: for every client and topic, the live readings the client has received
\* for the topic are the readings appended to the topic's history since the
\* client connected, in the order they were appended.
C6_LiveOrderIsProcessingOrder ==
    \A s \in sockets : \A t \in Topics :
        LivePoints(inbox[s], t) =
            SubSeq(appended[t], atAttach[s].processed[t] + 1, Len(appended[t]))

\* a client has received two different live readings of one topic
C6_Witness ==
    \E s \in sockets : \E t \in Topics :
        /\ Len(LivePoints(inbox[s], t)) >= 2
        /\ LivePoints(inbox[s], t)[1] # LivePoints(inbox[s], t)[2]

\* the set of elements of a sequence
Range(seq) == {seq[i] : i \in DOMAIN seq}

PointOf(e) == [value |-> e.payload.value, timestamp |-> e.payload.timestamp]

\* C5: every sensor_data event emitted, by the relay or by the forward route,
\* is a reading that was appended to the history of its topic.
C5_BroadcastReadingsAreInHistory ==
    /\ \A i \in DOMAIN emitted :
          IsDataEvent(emitted[i].ev) =>
             PointOf(emitted[i].ev) \in Range(appended[emitted[i].ev.topic])
    /\ \A i \in DOMAIN globalEmitted :
          IsDataEvent(globalEmitted[i]) =>
             /\ globalEmitted[i].topic \in DOMAIN sensorDataStore
             /\ PointOf(globalEmitted[i]) \in Range(appended[globalEmitted[i].topic])

\* the events the part that runs has sent to its clients
Observed ==
    IF part = "relay" THEN [i \in DOMAIN emitted |-> emitted[i].ev]
    ELSE IF part = "custom" THEN globalEmitted
    ELSE updates

\* C7: every inbound message handled adds exactly one event, a reading (or
\* update) with a numeric value or else an error event that leaves the
\* stores unchanged.
C7_EveryMessageYieldsOneEvent ==
    [][handled' = handled + 1 =>
         /\ Len(Observed') = Len(Observed) + 1
         /\ LET e == Observed'[Len(Observed')]
            IN  \/ e.type = "sensor_data" /\ ~IsNaN(e.payload.value)
                \/ e.type = "sensor_update" /\ ~IsNaN(e.data.value)
                \/ e.type = "threshold_update"
                \/ /\ e.type = "sensor_data_error"
                   /\ UNCHANGED <<sensorDataStore, sensors>>]_vars

\* C8: once the forward route has answered that a message failed to decrypt,
\* an error event naming the message's topic has been emitted.
C8_DecryptFailureEmitsError ==
    response.error = "Failed to decrypt message" =>
        \E i \in DOMAIN globalEmitted :
            IsErrorEvent(globalEmitted[i]) /\ globalEmitted[i].topic = response.topic

\* the step handled a message and ended in a failure: an error event in the
\* relay, no emission in the custom-broker routes
MessageFailed ==
    /\ handled' = handled + 1
    /\ \/ /\ part = "relay"
          /\ Len(emitted') = Len(emitted) + 1
          /\ IsErrorEvent(emitted'[Len(emitted')].ev)
       \/ /\ part = "custom"
          /\ globalEmitted' = globalEmitted

\* C9: a message whose processing fails changes neither the primary client,
\* nor any custom client, nor the set of connected sockets, nor the history:
\* the connections stay subscribed and go on handling messages.
C9_FailureIsolated ==
    [][MessageFailed => UNCHANGED <<mqttClient, clients, io, sockets, sensorDataStore>>]_vars

\* after a failed message the primary client, still connected and subscribed,
\* handled a valid one, which was broadcast
C9_Witness ==
    /\ mqttClient.connected /\ mqttClient.subscribed
    /\ \E i \in DOMAIN emitted : \E j \in DOMAIN emitted :
          i < j /\ IsErrorEvent(emitted[i].ev) /\ IsDataEvent(emitted[j].ev)

\* C10: whenever the state of an existing broker connection changes, the
\* same step broadcasts a status event.
C10_StatusOnEveryTransition ==
    [][(\/ mqttClient.exists /\ mqttClient' # mqttClient
        \/ \E d \in Devices :
              clients[d].exists /\ clients'[d].exists /\ clients'[d] # clients[d])
       => \/ /\ Len(emitted') = Len(emitted) + 1
             /\ IsStatusEvent(emitted'[Len(emitted')].ev)
          \/ /\ Len(globalEmitted') = Len(globalEmitted) + 1
             /\ IsStatusEvent(globalEmitted'[Len(globalEmitted')])]_vars

\* the index of the last status event in what a subscriber has received
LastStatusIndex(box) ==
    CHOOSE i \in DOMAIN box :
        /\ IsStatusEvent(box[i])
        /\ \A j \in DOMAIN box : IsStatusEvent(box[j]) => j <= i

\* C11: the last status event an attached subscriber has received agrees
\* with the primary connection's actual state: connected=false once the
\* connection has dropped, connected=true once it is restored.
C11_LastStatusAgreesWithState ==
    \A s \in sockets :
        (\E i \in DOMAIN inbox[s] : IsStatusEvent(inbox[s][i]))
        => inbox[s][LastStatusIndex(inbox[s])].connected
             = (mqttClient.exists /\ mqttClient.connected)

\* C12: a broker connection, the primary one or a registered device's, is
\* never connected without a subscription to its topic pattern having been
\* issued since that connect, on the first connect and on every reconnect.
C12_ConnectedImpliesSubscribed ==
    /\ mqttClient.connected => mqttClient.subscribed
    /\ \A d \in Devices : clients[d].connected => clients[d].subscribed

\* the primary connection is connected and subscribed again after a drop
C12_Witness ==
    /\ mqttClient.connected /\ mqttClient.subscribed
    /\ \E i \in DOMAIN emitted : \E j \in DOMAIN emitted :
          /\ i < j /\ j = Len(emitted)
          /\ emitted[i].ev = StatusEvent(FALSE, "MQTT connection closed")
          /\ emitted[j].ev = StatusEvent(TRUE, "Connected to MQTT broker")

\* the number of client.end calls made for a name: the DELETEs that found a client
EndCalls(name) ==
    Cardinality({i \in DOMAIN deleted[name] : deleted[name][i].exists})

\* the response of the proxy to a name that is already registered
AlreadyRegistered == Response("proxy", 400, "Client already exists for this device", "")

\* C13: registering a name that is already registered fails with
\* AlreadyRegistered and makes no connection; after every step the clients
\* made and not ended for a name are exactly the one the registry holds.
C13_OneConnectionPerName ==
    [][\A name \in Devices :
          /\ (RegisterPOST(name) /\ clients[name].exists)
                => /\ response' = AlreadyRegistered
                   /\ UNCHANGED <<clients, connects, deleted>>
          /\ connects'[name] - EndCalls(name)' = (IF clients'[name].exists THEN 1 ELSE 0)]_vars

\* a second registration was refused after the name had been unregistered
\* and registered again
C13_Witness ==
    /\ response = AlreadyRegistered
    /\ \E name \in Devices :
          clients[name].exists /\ connects[name] = 2 /\ EndCalls(name) = 1

\* C14: unregistering a name that is not registered fails with NotFound:
\* the response to such a DELETE is not a success.
C14_UnregisterUnknownFails ==
    [][\A name \in Devices :
          (UnregisterDELETE(name) /\ ~clients[name].exists)
             => response'.status # 200]_vars

\* device d has been unregistered and is not registered now
Unregistered(d) == ~clients[d].exists /\ EndCalls(d) > 0

\* C15: once a device has been unregistered, no step broadcasts a reading
\* or status event for it, messages that were being forwarded when it was
\* unregistered included.
C15_NoEventAfterUnregister ==
    [][\A d \in Devices :
          (Unregistered(d) /\ Len(globalEmitted') > Len(globalEmitted))
             => globalEmitted'[Len(globalEmitted')].payload.device # d]_vars

\* C16: a DELETE for a registered name ends its client and removes it from
\* the registry whatever state the client was in, and a name that has been
\* unregistered gets a connection again only through a new mqtt.connect.
C16_UnregisterStopsConnection ==
    [][\A name \in Devices :
          /\ (UnregisterDELETE(name) /\ clients[name].exists)
                => /\ clients'[name] = NoClient
                   /\ EndCalls(name)' = EndCalls(name) + 1
          /\ (Unregistered(name) /\ clients'[name] # NoClient)
                => connects'[name] = connects[name] + 1]_vars

\* a name was unregistered once while connected and once while reconnecting
C16_Witness ==
    \E name \in Devices :
        /\ Unregistered(name)
        /\ \E i \in DOMAIN deleted[name] : deleted[name][i].connected
        /\ \E i \in DOMAIN deleted[name] : deleted[name][i].reconnecting

\* C17: a DELETE for a name that has already been unregistered changes
\* neither the registry nor the History Store and ends no client.
C17_UnregisterIdempotent ==
    [][\A name \in Devices :
          (UnregisterDELETE(name) /\ Unregistered(name))
             => /\ UNCHANGED <<clients, connects, sensorDataStore, storeKeys>>
                /\ EndCalls(name)' = EndCalls(name)]_vars

\* two DELETEs followed the one registration of a name: the first ended its
\* client, the second found none
C17_Witness ==
    \E name \in Devices :
        /\ connects[name] = 1 /\ ~clients[name].exists
        /\ Len(deleted[name]) = 2
        /\ deleted[name][1].exists /\ ~deleted[name][2].exists

\* C18: every client a DELETE ended had unsubscribed from its topic pattern
\* before client.end closed the transport.
C18_UnsubscribedBeforeEnd ==
    \A name \in Devices : \A i \in DOMAIN deleted[name] :
        deleted[name][i].exists => ~deleted[name][i].subscribed

\* C19: every control command that was published went out on the broker of
\* the connection the registry holds for its device (the device's own
\* broker when it is registered, the primary broker otherwise), on topic
\* <base>/<device>/control, with exactly the fields the caller supplied.
C19_PublishedOnDeviceConnection ==
    \A i \in DOMAIN requests :
        requests[i].status = 200
        => /\ requests[i].broker = (IF requests[i].registered
                                    THEN CustomBroker(requests[i].device)
                                    ELSE MQTT_BROKER)
           /\ requests[i].topic = ControlTopic(requests[i].device)
           /\ (requests[i].payload.enabled # Undefined) = (requests[i].enabled # Null)
           /\ (requests[i].payload.scale # Undefined) = (requests[i].scale # Null)

\* C20: a control request that has no response yet is never left waiting
\* on the broker: a step that answers it, with success or with the publish
\* failure, is enabled whether or not the broker can be reached.
C20_PendingRequestIsAnswerable ==
    \A i \in DOMAIN requests :
        requests[i].status = 0 => ENABLED (PublishCallback(i) \/ PublishError(i))

\* the forward route handles a request whose message is an encrypted
\* reading with a device of its own
ForwardsReading(req) ==
    /\ ForwardPOST(req)
    /\ req.message.cipher = "aes-256-cbc"
    /\ req.message.plain.text = "object"
    /\ "device" \in DOMAIN req.message.plain

\* the reading broadcast equals the original in every field but device
SameButDevice(payload, original) ==
    /\ payload.value = original.value
    /\ payload.unit = original.unit
    /\ payload.timestamp = original.timestamp
    /\ payload.coordinates = original.coordinates
    /\ payload.threshold = original.threshold

Includes(topic, word) ==
    <<topic, word>> \in {<<WarmTopic, "temperature">>, <<OtherTopic, "humidity">>}

\* the unit the dashboard page shows for a reading: the topic name decides
\* when the reading carries none
InferUnit(topic, unit) ==
    IF unit \notin {"", "N/A"} THEN unit
    ELSE IF Includes(topic, "temperature") THEN "degC"
    ELSE IF Includes(topic, "humidity") THEN "%"
    ELSE IF Includes(topic, "pressure") THEN "hPa"
    ELSE "N/A"

\* C22: the unit stored for a topic and the unit sent in every live reading
\* event is the one inferred from the topic name when the reading had none.
C22_UnitInferredFromTopic ==
    /\ \A t \in DOMAIN sensorDataStore :
          sensorDataStore[t].currentUnit = InferUnit(t, sensorDataStore[t].currentUnit)
    /\ \A i \in DOMAIN emitted :
          IsDataEvent(emitted[i].ev)
             => emitted[i].ev.payload.unit
                  = InferUnit(emitted[i].ev.topic, emitted[i].ev.payload.unit)

\* the unit of the reading appended last to topic t: that of the last
\* sensor_data event broadcast for t
LastUnit(t) ==
    LET idx == {i \in DOMAIN emitted :
                   IsDataEvent(emitted[i].ev) /\ emitted[i].ev.topic = t}
    IN  emitted[CHOOSE i \in idx : \A j \in idx : j <= i].ev.payload.unit

\* C23: the unit stored for a topic is the unit of the reading appended to
\* it last, and it is the unit every history replay of the topic carries.
C23_UnitIsLastAppended ==
    /\ \A t \in DOMAIN sensorDataStore : sensorDataStore[t].currentUnit = LastUnit(t)
    /\ \A s \in sockets : \A i \in DOMAIN inbox[s] :
          (IsHistoryEvent(inbox[s][i]) /\ atAttach[s].processed = [t \in Topics |-> Len(appended[t])])
             => inbox[s][i].unit = LastUnit(inbox[s][i].topic)

\* a topic got readings with two different units and a client was then sent
\* its history with the later one
C23_Witness ==
    \E s \in sockets : \E i \in DOMAIN inbox[s] :
        /\ IsHistoryEvent(inbox[s][i])
        /\ Len(inbox[s][i].history) = 2
        /\ inbox[s][i].unit = "N/A"
        /\ \E j \in DOMAIN emitted :
              /\ IsDataEvent(emitted[j].ev)
              /\ emitted[j].ev.topic = inbox[s][i].topic
              /\ emitted[j].ev.payload.unit = "C"

\* C24: the readings a device's connection received on one topic are
\* broadcast in the order they arrived on the connection (the order of the
\* fetch calls).
C24_ForwardedInArrivalOrder ==
    \A i \in DOMAIN forwarded : \A j \in DOMAIN forwarded :
        (i < j /\ forwarded[i].topic = forwarded[j].topic)
           => forwarded[i].id < forwarded[j].id

\* the updates broadcast since the client connected
UpdatesSince(n) == SubSeq(updates, n + 1, Len(updates))

\* C25: a client connected to api-server.js, on either server and by either
\* protocol, has received an initial_data snapshot first and then every
\* update broadcast since it connected.
C25_ClientGetsSnapshotAndUpdates ==
    apiClient.exists
    => /\ Len(apiInbox) >= 1
       /\ apiInbox[1].type = "initial_data"
       /\ Tail(apiInbox) = UpdatesSince(apiClient.since)

\* the state a control request leaves for its device, given what an omitted
\* field becomes
ControlFrame(q, enabled, scale) ==
    /\ deviceStates'[q.device] =
          [enabled |-> IF q.enabled # Undefined THEN q.enabled ELSE enabled,
           scale |-> IF q.scale # Undefined THEN q.scale ELSE scale]
    /\ \A d \in DOMAIN deviceStates : d # q.device => deviceStates'[d] = deviceStates[d]
    /\ DOMAIN deviceStates' = DOMAIN deviceStates \cup {q.device}
    /\ UNCHANGED sensors
    /\ updates' = Append(updates, [type |-> "device_control", device |-> q.device,
                                    state |-> deviceStates'[q.device]])

\* C28 as stated: a control request changes only the named device and only
\* the fields supplied; an omitted field keeps its previous value, or
\* enabled=true, scale=1 for a device never seen; one device_control update
\* is broadcast.
C28_OmittedFieldKeepsValue ==
    [][\A q \in ApiControls :
          ApiControlPOST(q)
             => ControlFrame(q,
                   IF q.device \in DOMAIN deviceStates
                   THEN deviceStates[q.device].enabled ELSE "true",
                   IF q.device \in DOMAIN deviceStates
                   THEN deviceStates[q.device].scale ELSE "1")]_vars

\* C28 amended: an omitted field keeps its previous value unless that value
\* is null, and becomes the default when it is null or the device is new.
C28_OmittedFieldKeepsNonNullValue ==
    [][\A q \in ApiControls :
          ApiControlPOST(q)
             => ControlFrame(q,
                   IF q.device \in DOMAIN deviceStates
                      /\ deviceStates[q.device].enabled # Null
                   THEN deviceStates[q.device].enabled ELSE "true",
                   IF q.device \in DOMAIN deviceStates
                      /\ deviceStates[q.device].scale # Null
                   THEN deviceStates[q.device].scale ELSE "1")]_vars

\* two devices have states, one of them set by two requests that each gave
\* one field, and a sensor has history
C28_Witness ==
    /\ DOMAIN deviceStates = {"rpi1", "rpi2"}
    /\ deviceStates["rpi1"].scale = "2"
    /\ deviceStates["rpi2"] = [enabled |-> "false", scale |-> "1"]
    /\ \E k \in DOMAIN sensors : Len(sensors[k]) > 0

\* the number of readings appended to all histories so far
TotalAppended == Len(appended[WarmTopic]) + Len(appended[OtherTopic])

\* C26: however often the setup handler is called, one IOServer and one
\* primary MQTT client with handlers are made at most, and a step that
\* handles an inbound message broadcasts one event and appends one reading
\* at most.
C26_OneServerOneClient ==
    [][/\ setup'.ioServers <= 1
       /\ setup'.mqttClients <= 1
       /\ setup'.ioServers = (IF io' THEN 1 ELSE 0)
       /\ setup'.mqttClients = (IF mqttClient'.exists THEN 1 ELSE 0)
       /\ (relayOnly /\ handled' = handled + 1)
             => /\ Len(emitted') = Len(emitted) + 1
                /\ TotalAppended' =
                      TotalAppended + (IF IsDataEvent(emitted'[Len(emitted')].ev)
                                       THEN 1 ELSE 0)]_vars

\* the handler was called twice, and a reading was handled
C26_Witness ==
    /\ setup = [calls |-> 2, ioServers |-> 1, mqttClients |-> 1]
    /\ \E i \in DOMAIN emitted : IsDataEvent(emitted[i].ev)
    /\ TotalAppended = 1

\* C27: a topic is in sensorDataStore exactly when a valid reading was
\* received for it, and its history is then not empty.
C27_StoredTopicsHaveHistory ==
    /\ \A t \in DOMAIN sensorDataStore : Len(sensorDataStore[t].history) > 0
    /\ \A t \in Topics : (t \in DOMAIN sensorDataStore) = (Len(appended[t]) > 0)

\* one topic has history, and another got only a message that was refused
C27_Witness ==
    /\ WarmTopic \in DOMAIN sensorDataStore
    /\ OtherTopic \notin DOMAIN sensorDataStore
    /\ \E i \in DOMAIN emitted :
          IsErrorEvent(emitted[i].ev) /\ emitted[i].ev.topic = OtherTopic

\* C29: once the provider is unmounted no WebSocket is opened and no
\* reconnect timer is pending; while it is mounted at most one timer is pending.
C29_NoReconnectAfterUnmount ==
    /\ ~provider.mounted => /\ Len(provider.sockets) = provider.cleanup.sockets
                            /\ PendingTimers = {}
    /\ provider.mounted => Cardinality(PendingTimers) <= 1

\* C30: a reading the forward route broadcasts carries as device the name
\* under which the forwarding connection was registered, whatever device the
\* decrypted payload names.
C30_DeviceIsRegisteredName ==
    [][\A req \in forwards :
          (ForwardPOST(req) /\ Len(globalEmitted') = Len(globalEmitted) + 1)
             => /\ connects[req.device] > 0
                /\ globalEmitted'[Len(globalEmitted')].payload.device = req.device]_vars

\* the reading encrypted with device rpi7 was broadcast as a reading of rpi9
C30_Witness ==
    \E i \in DOMAIN globalEmitted :
        /\ globalEmitted[i].payload.coordinates = "12.9,77.6"
        /\ globalEmitted[i].payload.device = "rpi9"
        /\ connects["rpi9"] > 0
====
